---- MODULE Spec2Model ----
(***************************************************************************)
(* Remote hCaptcha solve flow: run_solve and the steady-state loop          *)
(* _run_loop of the Selenium backend (kenzx_captcha/_solver.py) and of the  *)
(* Playwright backend (solver_playwright.py), with the remote service, the  *)
(* page (iframes, response field) and the user (interrupt) as environment.  *)
(* Time is counted in milliseconds inside the loop (only the sleeps take    *)
(* time) and in seconds inside the two waits before it.                     *)
(***************************************************************************)
EXTENDS Integers, Sequences, FiniteSets, TLC

VARIABLES
  backend,     \* "selenium" | "playwright": which implementation runs
  timeout,     \* wait_captcha_timeout in seconds, NoTimeout for None
  opensAuto,   \* captcha_opens_automatically
  pc,          \* position of control inside run_solve / _run_loop
  frames,      \* page: the hcaptcha iframes, in document order (sizes)
  field,       \* page: value of the h-captcha-response field, or NoField
  elapsed,     \* seconds since the running wait computed its deadline
  crop,        \* run_solve local: rectangle returned by _wait_expanded
  res,         \* run_solve local: createTask response
  resp,        \* _run_loop local: last poll response
  token,       \* _run_loop local: value returned by _get_token (<<>> = None)
  sinceShot,   \* perf_counter() - last_shot[0], saturating
  sincePush,   \* time since the last update_screenshot request, saturating
  pushed,      \* an update_screenshot request was issued by this loop
  shotRect,    \* rectangle probed for the screenshot being pushed
  gesture,     \* pointer events issued by the click or replay in progress
  result,      \* how run_solve ended: kind is "running", "return" or "raise"
  loopExit,    \* why _run_loop ended, "none" while it has not
  ev,          \* the step taken last: operation, outcome, token sent
  nCreate,     \* createTask requests issued (saturating)
  nStart,      \* startSession requests issued (saturating)
  nNotify,     \* notifySolved requests issued (saturating)
  iter,        \* what the running iteration has done so far (history)
  fails,       \* consecutive iterations ended by the backoff (saturating)
  client,      \* who called run_solve, with after_solve, keep_browser_open
  called,      \* invocations of the after_solve callback (saturating)
  outcome,     \* how the caller's entry point ended, Running while it runs
  context      \* Selenium: browsing context the driver is switched to

vars == <<backend, timeout, opensAuto, pc, frames, field, elapsed, crop, res,
          resp, token, sinceShot, sincePush, pushed, shotRect, gesture,
          result,
          loopExit, ev, nCreate, nStart, nNotify, iter, fails,
         client, called, outcome, context>>

----------------------------------------------------------------------------
(* Program constants (milliseconds, pixels).                                *)
MIN_SIZE == 260
MIN_FRAME == 50
POLL_MS == 120
SCREENSHOT_INTERVAL_MS == 200
REPLAY_PAUSE_MS == 80
BACKOFF_MS == 1000
WAIT_POLL_S == 1

(* Bounds of the model.                                                     *)
CountCap == 2        \* counters of requests saturate here
FailCap == 2         \* the count of consecutive failed iterations saturates
MaxTimeout == 1      \* largest configured wait budget, in seconds

NoTimeout == 0 - 1
Timeouts == {NoTimeout} \cup (0 .. MaxTimeout)

Min(a, b) == IF a < b THEN a ELSE b
Bump(n, cap) == Min(n + 1, cap)

----------------------------------------------------------------------------
(* Page geometry.                                                           *)
Rect(l, t, w, h) == [left |-> l, top |-> t, width |-> w, height |-> h]
NoRect == Rect(0, 0, 0 - 1, 0 - 1)

Tiny == Rect(0, 0, 40, 40)          \* below the 50px filter
Checkbox == Rect(10, 20, 300, 74)   \* the checkbox presentation
Challenge == Rect(20, 10, 400, 600) \* the expanded challenge

FrameConfigs ==
  { <<>>, <<Tiny>>, <<Checkbox>>, <<Checkbox, Challenge>> }

Area(r) == r.width * r.height

RECURSIVE BestFrom_NoFilter(_, _, _)
BestFrom_NoFilter(fs, best, bestArea) ==
  IF fs = <<>> THEN best
  ELSE IF Area(Head(fs)) > bestArea
       THEN BestFrom_NoFilter(Tail(fs), Head(fs), Area(Head(fs)))
       ELSE BestFrom_NoFilter(Tail(fs), best, bestArea)

RECURSIVE BestFrom(_, _, _)
BestFrom(fs, best, bestArea) ==
  IF fs = <<>> THEN best
  ELSE LET r == Head(fs) IN
       IF r.width < MIN_FRAME \/ r.height < MIN_FRAME
       THEN BestFrom(Tail(fs), best, bestArea)
       ELSE IF Area(r) > bestArea
            THEN BestFrom(Tail(fs), r, Area(r))
            ELSE BestFrom(Tail(fs), best, bestArea)

(* _get_viewport_and_crop: the largest iframe of at least 50x50, or none.   *)
GetViewportAndCrop(fs) == BestFrom(fs, NoRect, 0)

IsExpandedRect_AnyRect(r) == TRUE

IsExpandedRect_EitherDimension(r) ==
  r # NoRect /\ (r.width >= MIN_SIZE \/ r.height >= MIN_SIZE)

IsExpandedRect(r) == r # NoRect /\ r.width >= MIN_SIZE /\ r.height >= MIN_SIZE

IsAlreadyExpanded(fs) == IsExpandedRect(GetViewportAndCrop(fs))

----------------------------------------------------------------------------
(* The response field and _get_token.                                       *)
NoField == <<"absent">>
FieldValues == { NoField, <<>>, <<" ">>, <<" ", "a", " ">>, <<"b">> }

RECURSIVE LStrip(_)
LStrip(s) == IF s # <<>> /\ Head(s) = " " THEN LStrip(Tail(s)) ELSE s

RECURSIVE RStrip(_)
RStrip(s) ==
  IF s # <<>> /\ s[Len(s)] = " " THEN RStrip(SubSeq(s, 1, Len(s) - 1)) ELSE s

Strip(s) == RStrip(LStrip(s))

GetToken_NoStrip(f) == IF f = NoField THEN <<>> ELSE f

(* _get_token when the lookup does not raise: None (<<>>) for a missing     *)
(* element and for a value that is empty after strip().                     *)
GetToken(f) == IF f = NoField THEN <<>> ELSE Strip(f)

----------------------------------------------------------------------------
(* Remote responses.                                                        *)
NoId == "none"
TaskResponses == [errorId : {0, 1, 0 - 1}, taskId : {NoId, "", "t1"}]
NoRes == [errorId |-> 0 - 2, taskId |-> "unset"]

TaskFailed_NoTaskIdCheck(r) == r.errorId # 0

(* run_solve: res.get("errorId") != 0 or not res.get("taskId"); a missing   *)
(* errorId is -1 here, a missing taskId is NoId.                            *)
TaskFailed(r) == r.errorId # 0 \/ r.taskId \in {NoId, ""}

Statuses == {"active", "solved", "expired", "none"}
Pt(x, y) == [x |-> x, y |-> y]
NoPt == Pt(0 - 1, 0 - 1)

(* An action descriptor: a click carries its point (x, y) in from, a drag   *)
(* carries from and to; complete says that the coordinates are present.     *)
ActionAt(k, c, p, q) == [kind |-> k, complete |-> c, from |-> p, to |-> q]
Action(k, c) ==
  ActionAt(k, c, IF c THEN Pt(100, 50) ELSE NoPt,
           IF c /\ k = "drag" THEN Pt(160, 110) ELSE NoPt)
NoAction == Action("none", FALSE)
Actions == { NoAction, Action("click", TRUE), Action("click", FALSE),
             Action("drag", TRUE), Action("drag", FALSE),
             Action("other", FALSE), Action("nondict", FALSE) }
PollResponses == [status : Statuses, action : Actions]
NoResp == [status |-> "none", action |-> NoAction]

IsTerminal_OnlySolved(status) == status = "solved"

(* _run_loop: status in ("expired", "solved").                              *)
IsTerminal(status) == status \in {"expired", "solved"}

Replayable_AnyKnownKind(a) == a.kind \in {"click", "drag"}

(* _run_loop: a click with x and y, or a drag with from and to.             *)
Replayable(a) == a.kind \in {"click", "drag"} /\ a.complete

ShotDue(age) == age >= SCREENSHOT_INTERVAL_MS

----------------------------------------------------------------------------
(* Input replay: the pointer events a gesture issues, in order. ctx is the  *)
(* browsing context the event is dispatched in ("frame": the document of    *)
(* the hcaptcha iframe, after switch_to.frame; "page": the outer page);     *)
(* target is the iframe a checkbox click is aimed at, NoRect otherwise.     *)
PEvT(c, t, x, y, f) == [ctx |-> c, type |-> t, x |-> x, y |-> y, target |-> f]
PEv(c, t, x, y) == PEvT(c, t, x, y, NoRect)

DRAG_STEPS == 12

(* int(n / 12) of Python: truncation toward zero.                           *)
Trunc12(n) ==
  IF n >= 0 THEN n \div DRAG_STEPS ELSE 0 - ((0 - n) \div DRAG_STEPS)

(* Math.round(n / 12) of JavaScript: the nearest integer, halves upward.    *)
Round12(n) == (2 * n + DRAG_STEPS) \div (2 * DRAG_STEPS)

Inside_LeftTopOnly(x, y, r) == r.left <= x /\ r.top <= y

(* _inside(x, y, r).                                                        *)
Inside(x, y, r) ==
  /\ r.left <= x /\ x < r.left + r.width
  /\ r.top <= y /\ y < r.top + r.height

(* "if crop" over an Optional[_CropRect].                                   *)
HasCrop(r) == r # NoRect

(* _click_in_frame: mousedown, mouseup, click on the element at (ox, oy).   *)
ClickInFrame(ox, oy) == << PEv("frame", "click", ox, oy) >>

(* _click_main: ActionChains move to (x, y) of the body, click.             *)
ClickMain(x, y) == << PEv("page", "click", x, y) >>

PerformClick(vx, vy, c) ==
  IF HasCrop(c) /\ Inside(vx, vy, c)
  THEN ClickInFrame(vx - c.left, vy - c.top)
  ELSE ClickMain(vx, vy)

(* _drag_in_frame: mousedown at from, twelve mousemove events at the        *)
(* rounded interpolation, mouseup at to.                                    *)
DragInFrame(f, t) ==
  << PEv("frame", "down", f.x, f.y) >>
  \o [i \in 1 .. DRAG_STEPS |->
        PEv("frame", "move", Round12(DRAG_STEPS * f.x + (t.x - f.x) * i),
            Round12(DRAG_STEPS * f.y + (t.y - f.y) * i))]
  \o << PEv("frame", "up", t.x, t.y) >>

(* The twelve moves of range(1, 13) with int() on the interpolation.        *)
MovesMain(f, t) ==
  [i \in 1 .. DRAG_STEPS |->
     PEv("page", "move", Trunc12(DRAG_STEPS * f.x + (t.x - f.x) * i),
         Trunc12(DRAG_STEPS * f.y + (t.y - f.y) * i))]

(* _drag_main: move to from and hold, the twelve moves, then one more move  *)
(* to to and the release.                                                   *)
DragMain(f, t) ==
  << PEv("page", "move", f.x, f.y), PEv("page", "down", f.x, f.y) >>
  \o MovesMain(f, t)
  \o << PEv("page", "move", t.x, t.y), PEv("page", "up", t.x, t.y) >>

PerformDrag(f, t, c) ==
  IF HasCrop(c) /\ Inside(f.x, f.y, c) /\ Inside(t.x, t.y, c)
  THEN DragInFrame(Pt(f.x - c.left, f.y - c.top),
                   Pt(t.x - c.left, t.y - c.top))
  ELSE DragMain(f, t)

(* Playwright: page.mouse.click(x, y).                                      *)
MouseClick(x, y) == << PEv("page", "click", x, y) >>

(* Playwright: page.mouse.move, down, the twelve moves, up; the button is   *)
(* released where the last move left the pointer.                           *)
MouseDrag(f, t) ==
  LET moves == MovesMain(f, t) IN
  << PEv("page", "move", f.x, f.y), PEv("page", "down", f.x, f.y) >>
  \o moves
  \o << PEv("page", "up", moves[DRAG_STEPS].x, moves[DRAG_STEPS].y) >>

(* The gesture one replay issues: _perform_click / _perform_drag with the   *)
(* crop of run_solve in the Selenium backend, page.mouse in the Playwright  *)
(* backend, which does not look at the crop.                                *)
ReplayGesture(b, a, c) ==
  IF b = "selenium"
  THEN IF a.kind = "click" THEN PerformClick(a.from.x, a.from.y, c)
       ELSE PerformDrag(a.from, a.to, c)
  ELSE IF a.kind = "click" THEN MouseClick(a.from.x, a.from.y)
       ELSE MouseDrag(a.from, a.to)

(* The replay runs the script inside the iframe.                            *)
InFrame(b, a, c) ==
  /\ b = "selenium" /\ HasCrop(c) /\ Inside(a.from.x, a.from.y, c)
  /\ (a.kind = "drag" => Inside(a.to.x, a.to.y, c))

----------------------------------------------------------------------------
(* Selenium: the browsing context of the driver.                            *)

(* Where a dispatch inside a frame can raise: locating the frame, switching *)
(* to it (both before the try block), or anything inside the try block.     *)
FailPoints == {"locate", "switch", "script"}

InFrameContexts_NoFinally(p) ==
  IF p \in {"locate", "switch"} THEN <<>>
  ELSE IF p = "script" THEN <<"frame", "child">>
  ELSE <<"frame", "child", "top">>

(* The contexts _click_in_frame and _drag_in_frame switch through:          *)
(* switch_to.frame(_largest_frame(...)), _switch_challenge_frame, and       *)
(* switch_to.default_content() in the finally clause; p is where it raised. *)
InFrameContexts(p) ==
  IF p \in {"locate", "switch"} THEN <<>>
  ELSE <<"frame", "child", "top">>

(* _open_checkbox_if_needed: switch_to.frame(checkbox_frame), the click,    *)
(* and switch_to.default_content() in the finally clause.                   *)
CheckboxContexts(p) ==
  IF p \in {"locate", "switch"} THEN <<>>
  ELSE <<"frame", "top">>

(* The context the driver is left in.                                       *)
FinalContext(cs, c0) == IF cs = <<>> THEN c0 ELSE cs[Len(cs)]

(* The context after a replay: only the in-frame primitives of Selenium     *)
(* switch it.                                                               *)
ContextAfter(b, a, c, p, c0) ==
  IF InFrame(b, a, c) THEN FinalContext(InFrameContexts(p), c0) ELSE c0

----------------------------------------------------------------------------
(* The checkbox click of _open_checkbox_if_needed.                          *)
PW_CHECKBOX_MAX == 250

Max(a, b) == IF a > b THEN a ELSE b

RECURSIVE FirstSmall(_, _)
(* The first iframe of at least 50x50 that is not limit x limit or more,    *)
(* NoRect when there is none.                                               *)
FirstSmall(fs, limit) ==
  IF fs = <<>> THEN NoRect
  ELSE LET r == Head(fs) IN
       IF r.width >= limit /\ r.height >= limit
       THEN FirstSmall(Tail(fs), limit)
       ELSE IF r.width >= MIN_FRAME /\ r.height >= MIN_FRAME THEN r
            ELSE FirstSmall(Tail(fs), limit)

(* Selenium: checkbox_frame, iframes[0] when no iframe is checkbox-sized.   *)
CheckboxFrame(fs) ==
  IF FirstSmall(fs, MIN_SIZE) # NoRect THEN FirstSmall(fs, MIN_SIZE)
  ELSE Head(fs)

(* _click_checkbox_via_js: mousedown, mouseup and click dispatched on the   *)
(* body of the frame at (50, 50).                                           *)
ClickCheckboxViaJs(f) ==
  << PEvT("frame", "mousedown", 50, 50, f),
     PEvT("frame", "mouseup", 50, 50, f),
     PEvT("frame", "click", 50, 50, f) >>

(* The sizes the body of the checkbox frame can report: none (an error of   *)
(* the size query counts as 0 x 0), one dimension below 10, 10 x 10, and    *)
(* the size of the frame.                                                   *)
BodySizes(f) ==
  { <<0, 0>>, <<9, f.height>>, <<f.width, 9>>, <<10, 10>>,
    <<f.width, f.height>> }

NativeOutcomes == {"ok", "not_interactable"}

CheckboxClick_BothDimensions(fs, w2, h2, native) ==
  LET f == CheckboxFrame(fs) IN
  IF w2 < 10 /\ h2 < 10
  THEN ClickCheckboxViaJs(f)
  ELSE IF native = "not_interactable"
       THEN ClickCheckboxViaJs(f)
       ELSE << PEvT("frame", "click", Max(15, (w2 \div 2) - 5),
                    Max(15, (h2 \div 2) - 5), f) >>

(* Selenium: the click inside the checkbox frame. A body below 10 in a      *)
(* dimension is clicked by script; otherwise ActionChains clicks at an      *)
(* offset from the body, and the script takes over when that click raises   *)
(* ElementNotInteractableException.                                         *)
CheckboxClick(fs, w2, h2, native) ==
  LET f == CheckboxFrame(fs) IN
  IF w2 < 10 \/ h2 < 10
  THEN ClickCheckboxViaJs(f)
  ELSE IF native = "not_interactable"
       THEN ClickCheckboxViaJs(f)
       ELSE << PEvT("frame", "click", Max(15, (w2 \div 2) - 5),
                    Max(15, (h2 \div 2) - 5), f) >>

(* Playwright: _click_checkbox_iframe clicks the centre of the first iframe *)
(* below 250x250, and does nothing when there is none.                      *)
ClickCheckboxIframe(fs) ==
  LET f == FirstSmall(fs, PW_CHECKBOX_MAX) IN
  IF f = NoRect THEN <<>>
  ELSE << PEvT("page", "click", (2 * f.left + f.width + 1) \div 2,
               (2 * f.top + f.height + 1) \div 2, f) >>

(* Elapsed times saturate at the screenshot interval: beyond it the code    *)
(* takes the same branch.                                                   *)
Advance(age, d) == Min(age + d, SCREENSHOT_INTERVAL_MS)

----------------------------------------------------------------------------
(* Control positions.                                                       *)
IterationBody == {"poll", "replay", "pause", "token", "notify"}
ShotBody == {"probe", "capture", "push"}
TryBody == IterationBody \cup ShotBody \cup {"sleep"}
InLoop == TryBody \cup {"backoff"}
Finished == {"done"}

EvArg(o, r, a) == [op |-> o, out |-> r, arg |-> a, rect |-> NoRect]
Ev(o, r) == EvArg(o, r, <<>>)
(* An upload: rect is the crop rectangle the request carries.               *)
EvRect(o, r, c) == [op |-> o, out |-> r, arg |-> <<>>, rect |-> c]

Dto_Absent(rect) == NoRect

(* CropRectDto(rect.left, rect.top, rect.width, rect.height) if rect else   *)
(* None: the rectangle as it is, or none.                                   *)
Dto(rect) == rect
Running == [kind |-> "running", val |-> ""]
Return(v) == [kind |-> "return", val |-> v]
Raise(e) == [kind |-> "raise", val |-> e]

ExceptTarget_Propagate(at) == "done"

ExceptTarget_Restart(at) ==
  IF at \in {"probe", "capture", "push"} THEN "sleep"
  ELSE IF at \in {"poll", "replay", "pause", "token", "notify", "sleep"}
       THEN "start"
       ELSE "done"

ExceptTarget_ShotBackoff(at) ==
  IF at \in ShotBody \cup IterationBody \cup {"sleep"} THEN "backoff"
  ELSE "done"

ExceptTarget_ShotFatal(at) ==
  IF at \in ShotBody THEN "done"
  ELSE IF at \in IterationBody \cup {"sleep"} THEN "backoff"
  ELSE "done"

(* Where an Exception raised at a position of the loop is handled: the      *)
(* inner handler of the screenshot block (log, then the poll sleep), the    *)
(* handler of the iteration (log, then the backoff sleep); elsewhere it     *)
(* leaves run_solve.                                                        *)
ExceptTarget(at) ==
  IF at \in ShotBody THEN "sleep"
  ELSE IF at \in IterationBody \cup {"sleep"} THEN "backoff"
  ELSE "done"

(* Where a KeyboardInterrupt is handled: inside the try block of the loop   *)
(* it is caught and _run_loop returns; the backoff sleep runs inside the    *)
(* except clause, where nothing catches it.                                 *)
InterruptCaught(at) == at \in TryBody

(* History of one iteration: the token the field held when the poll was     *)
(* issued, whether the poll returned a status that is not terminal, whether *)
(* a replay completed, whether the Token Watcher was consulted.             *)
IterReset ==
  [tok |-> <<>>, active |-> FALSE, replayed |-> FALSE, consulted |-> FALSE]

(* Who calls run_solve: the caller itself, RemoteCaptchaClient.solve or     *)
(* RemoteCaptchaClient.run; after_solve is absent ("none"), a callback that *)
(* returns or one that raises an Exception.                                 *)
Client(e, a, k) == [entry |-> e, after_solve |-> a, keep_browser_open |-> k]
Direct == Client("run_solve", "none", FALSE)

(* The locals, clocks and history of a run that has not started.            *)
Fresh ==
  /\ elapsed = 0
  /\ crop = NoRect
  /\ res = NoRes
  /\ resp = NoResp
  /\ token = <<>>
  /\ sinceShot = 0
  /\ sincePush = 0
  /\ pushed = FALSE
  /\ shotRect = NoRect
  /\ gesture = <<>>
  /\ result = Running
  /\ loopExit = "none"
  /\ ev = Ev("init", "ok")
  /\ nCreate = 0
  /\ nStart = 0
  /\ nNotify = 0
  /\ iter = IterReset
  /\ fails = 0
  /\ called = 0
  /\ outcome = Running
  /\ context = "top"

Init ==
  /\ client = Direct
  /\ backend \in {"selenium", "playwright"}
  /\ timeout \in Timeouts
  /\ opensAuto \in BOOLEAN
  /\ pc = "wait_iframe"
  /\ frames \in FrameConfigs
  /\ field \in FieldValues
  /\ Fresh

Locals == <<crop, res, resp, token, shotRect>>
Clock == <<sinceShot, sincePush, pushed>>
Page == <<frames, field>>
Config == <<backend, timeout, opensAuto>>
Caller == <<client, called, outcome>>
History == <<nCreate, nStart, nNotify, iter, fails>>

Escape_Swallowed(o, e) ==
  /\ pc' = "delay"
  /\ result' = result
  /\ ev' = Ev(o, "raise")

(* An exception leaves run_solve.                                           *)
Escape(o, e) ==
  /\ pc' = "done"
  /\ result' = Raise(e)
  /\ ev' = Ev(o, "raise")

----------------------------------------------------------------------------
(* Checkbox Activator and Expansion Waiter (before createTask).             *)

(* The budget _wait_for_iframe really applies: Selenium compares against a  *)
(* deadline whenever timeout is not None; Playwright passes                 *)
(* int(timeout * 1000) if timeout else 0, and 0 disables the timeout.       *)
IframeBudget(b, t) ==
  IF b = "playwright" /\ t = 0 THEN NoTimeout ELSE t

(* Selenium: find_elements returns any hcaptcha iframe; Playwright:         *)
(* wait_for_selector waits for a matching element that is visible.          *)
IframePresent(b, fs) ==
  IF b = "selenium" THEN fs # <<>>
  ELSE \E i \in 1 .. Len(fs) : fs[i].width > 0 /\ fs[i].height > 0

Tick_Frozen(budget) == elapsed

(* One sleep of the wait: a second on the clock of its deadline.            *)
Tick(budget) ==
  IF budget = NoTimeout THEN elapsed ELSE Min(elapsed + WAIT_POLL_S, budget)

PreUnchanged ==
  UNCHANGED <<Config, Page, Locals, Clock, loopExit, History, gesture, Caller,
              context>>

(* What one look for the iframe can report: Selenium catches an error of   *)
(* find_elements and goes on as if nothing was found.                       *)
IframeProbe(b, fs) ==
  IF b = "selenium" THEN {IframePresent(b, fs), FALSE}
  ELSE {IframePresent(b, fs)}

WaitForIframe ==
  /\ pc = "wait_iframe"
  /\ LET budget == IframeBudget(backend, timeout) IN
     \E found \in IframeProbe(backend, frames) :
       \/ /\ found
          /\ pc' = "settle"
          /\ ev' = Ev("wait_iframe", "found")
          /\ UNCHANGED <<elapsed, result>>
       \/ /\ ~found
          /\ budget # NoTimeout /\ elapsed >= budget
          /\ Escape("wait_iframe", "TimeoutError")
          /\ UNCHANGED elapsed
       \/ /\ ~found
          /\ ~(budget # NoTimeout /\ elapsed >= budget)
          /\ elapsed' = Tick(budget)
          /\ ev' = Ev("wait_iframe", "sleep")
          /\ UNCHANGED <<pc, result>>
  /\ PreUnchanged

(* _open_checkbox_if_needed after the iframe wait: sleep 1.2 s, then return *)
(* (self-opening, or already expanded) or click the checkbox.               *)
Settle ==
  /\ pc = "settle"
  /\ \/ /\ opensAuto \/ IsAlreadyExpanded(frames)
        /\ pc' = "wait_expanded"
        /\ ev' = Ev("settle", "no_click")
        /\ UNCHANGED result
     \/ /\ ~opensAuto /\ ~IsAlreadyExpanded(frames)
        /\ pc' = "click_checkbox"
        /\ ev' = Ev("settle", "click")
        /\ UNCHANGED result
     \/ /\ ~opensAuto
        /\ Escape("settle", "Error")
  /\ elapsed' = 0
  /\ PreUnchanged

ClickCheckbox ==
  /\ pc = "click_checkbox"
  /\ \/ /\ backend = "selenium" /\ frames # <<>>
        /\ \E b \in BodySizes(CheckboxFrame(frames)), n \in NativeOutcomes :
             /\ gesture' = CheckboxClick(frames, b[1], b[2], n)
             /\ ev' = EvArg("click_checkbox", "ok", <<b[1], b[2], n>>)
        /\ context' = FinalContext(CheckboxContexts("none"), context)
        /\ pc' = "wait_expanded"
        /\ UNCHANGED result
     \/ /\ backend = "playwright"
        /\ gesture' = ClickCheckboxIframe(frames)
        /\ pc' = "wait_expanded"
        /\ ev' = Ev("click_checkbox", "ok")
        /\ UNCHANGED <<result, context>>
     \/ /\ \E p \in FailPoints :
             /\ pc' = "done"
             /\ result' = Raise("Error")
             /\ ev' = EvArg("click_checkbox", "raise", <<p>>)
             /\ context' = IF backend = "selenium"
                           THEN FinalContext(CheckboxContexts(p), context)
                           ELSE context
        /\ gesture' = <<>>
  /\ UNCHANGED Caller
  /\ UNCHANGED <<elapsed, Config, Page, Locals, Clock, loopExit, History>>

(* wait_captcha_timeout and captcha_opens_automatically are not read after  *)
(* the two waits: the model forgets them there.                             *)
WaitsOver ==
  /\ timeout' = NoTimeout
  /\ opensAuto' = FALSE
  /\ elapsed' = 0

(* deadline is not None and time.time() >= deadline.                        *)
DeadlineReached(t, e) == t # NoTimeout /\ e >= t

WaitOutcome_DeadlineFirst(rect, t, e) ==
  IF DeadlineReached(t, e) THEN "timeout"
  ELSE IF IsExpandedRect(rect) THEN "expanded"
  ELSE "sleep"

(* One round of _wait_expanded after its probe: return the rectangle when   *)
(* it is at least MIN_SIZE in both dimensions, else check the deadline,     *)
(* else sleep 1 s.                                                          *)
WaitOutcome(rect, t, e) ==
  IF IsExpandedRect(rect) THEN "expanded"
  ELSE IF DeadlineReached(t, e) THEN "timeout"
  ELSE "sleep"

(* _wait_expanded. The event of a return tells whether the deadline had     *)
(* been reached when the rectangle was returned.                            *)
WaitExpanded ==
  /\ pc = "wait_expanded"
  /\ LET rect == GetViewportAndCrop(frames) IN
     \/ /\ WaitOutcome(rect, timeout, elapsed) = "expanded"
        /\ crop' = rect
        /\ pc' = "delay"
        /\ ev' = EvArg("wait_expanded", "expanded",
                       IF DeadlineReached(timeout, elapsed)
                       THEN <<"deadline_reached">> ELSE <<>>)
        /\ WaitsOver
        /\ UNCHANGED result
     \/ /\ WaitOutcome(rect, timeout, elapsed) = "timeout"
        /\ Escape("wait_expanded", "TimeoutError")
        /\ UNCHANGED <<elapsed, crop, timeout, opensAuto>>
     \/ /\ WaitOutcome(rect, timeout, elapsed) = "sleep"
        /\ elapsed' = Tick(timeout)
        /\ ev' = Ev("wait_expanded", "sleep")
        /\ UNCHANGED <<pc, result, crop, timeout, opensAuto>>
     \/ /\ Escape("wait_expanded", "Error")
        /\ UNCHANGED <<elapsed, crop, timeout, opensAuto>>
  /\ gesture' = <<>>
  /\ UNCHANGED context
  /\ UNCHANGED <<backend, Caller, Page, res, resp, token, shotRect, Clock,
                 loopExit, History>>

(* delay_after_captcha_load.                                                *)
Delay ==
  /\ pc = "delay"
  /\ pc' = "create"
  /\ ev' = Ev("delay", "ok")
  /\ UNCHANGED <<elapsed, result>>
  /\ PreUnchanged

----------------------------------------------------------------------------
(* run_solve from createTask to the loop.                                   *)
CreateTask ==
  /\ pc = "create"
  /\ nCreate' = Bump(nCreate, CountCap)
  /\ \/ \E r \in TaskResponses :
          /\ res' = r
          /\ IF TaskFailed(r)
             THEN /\ pc' = "done"
                  /\ result' = Return("None")
                  /\ ev' = Ev("create", "rejected")
             ELSE /\ pc' = "first_shot"
                  /\ result' = result
                  /\ ev' = Ev("create", "ok")
     \/ /\ Escape("create", "Error")
        /\ UNCHANGED res
  /\ UNCHANGED <<Caller, context>>
  /\ UNCHANGED <<Config, Page, elapsed, crop, resp, token, shotRect, Clock,
                 loopExit, nStart, nNotify, iter,
                 fails>>
  /\ UNCHANGED gesture

FirstShot ==
  /\ pc = "first_shot"
  /\ \/ /\ pc' = "start"
        /\ ev' = Ev("first_shot", "ok")
        /\ UNCHANGED result
     \/ Escape("first_shot", "Error")
  /\ UNCHANGED <<elapsed>>
  /\ PreUnchanged

(* start_remote_session, then _run_loop is entered: last_shot = now.        *)
StartSession ==
  /\ pc = "start"
  /\ nStart' = Bump(nStart, CountCap)
  /\ \/ /\ pc' = "poll"
        /\ ev' = EvRect("start", "ok", Dto(crop))
        /\ UNCHANGED result
     \/ /\ pc' = "done"
        /\ result' = Raise("Error")
        /\ ev' = EvRect("start", "raise", Dto(crop))
  /\ sinceShot' = 0
  /\ UNCHANGED <<Caller, context>>
  /\ UNCHANGED <<Config, Page, elapsed, Locals, sincePush, pushed, loopExit,
                 nCreate, nNotify, iter, fails>>
  /\ UNCHANGED gesture

----------------------------------------------------------------------------
(* _run_loop.                                                                *)

(* An Exception raised at the current position of the loop.                 *)
FailWith(e) ==
  LET t == ExceptTarget(pc) IN
  /\ pc' = t
  /\ ev' = e
  /\ result' = IF t = "done" THEN Raise("Error") ELSE result
  /\ loopExit' = IF t = "done" THEN "error" ELSE loopExit
  /\ fails' = IF t = "backoff" THEN Bump(fails, FailCap) ELSE fails

FailArg(o, a) == FailWith(EvArg(o, "raise", a))
Fail(o) == FailArg(o, <<>>)

(* _run_loop returns and run_solve returns task_id; the locals of the loop  *)
(* are gone.                                                                *)
LoopReturnsArg(o, r, a, why) ==
  /\ pc' = "done"
  /\ result' = Return(res.taskId)
  /\ ev' = EvArg(o, r, a)
  /\ loopExit' = why
  /\ token' = <<>>
  /\ shotRect' = NoRect
  /\ sinceShot' = 0
  /\ sincePush' = 0
  /\ UNCHANGED fails

LoopReturns(o, r, why) == LoopReturnsArg(o, r, <<>>, why)

Goes(to, o, r) ==
  /\ pc' = to
  /\ ev' = Ev(o, r)
  /\ UNCHANGED <<result, loopExit, fails>>

(* The time since the last push is kept once there has been a push.         *)
AdvancePush(d) == IF pushed THEN Advance(sincePush, d) ELSE sincePush

(* resp = api.get_next_action(task_id) and the dispatch on it.              *)
Poll ==
  /\ pc = "poll"
  /\ \/ \E r \in PollResponses :
          /\ resp' = r
          /\ iter' = [iter EXCEPT !.tok = GetToken(field),
                                  !.active = ~IsTerminal(r.status)]
          /\ IF IsTerminal(r.status)
             THEN LoopReturns("poll", "ended", "ended")
             ELSE /\ IF Replayable(r.action)
                     THEN Goes("replay", "poll", "action")
                     ELSE Goes("token", "poll", "no_action")
                  /\ UNCHANGED <<token, shotRect, sinceShot, sincePush>>
     \/ /\ Fail("poll")
        /\ iter' = [iter EXCEPT !.tok = GetToken(field)]
        /\ UNCHANGED <<resp, token, shotRect, sinceShot, sincePush>>
  /\ UNCHANGED <<Caller, context>>
  /\ UNCHANGED <<Config, Page, elapsed, crop, res, pushed, nCreate, nStart,
                 nNotify>>
  /\ UNCHANGED gesture

(* _perform_click / _perform_drag (Selenium), page.mouse (Playwright).      *)
(* Inside the iframe the script returns without an event when there is no  *)
(* element at the point.                                                    *)
Replay ==
  /\ pc = "replay"
  /\ \/ /\ gesture' = ReplayGesture(backend, resp.action, crop)
        /\ Goes("pause", "replay", "ok")
        /\ iter' = [iter EXCEPT !.replayed = TRUE]
        /\ context' = ContextAfter(backend, resp.action, crop, "none", context)
     \/ /\ InFrame(backend, resp.action, crop)
        /\ gesture' = <<>>
        /\ Goes("pause", "replay", "no_element")
        /\ iter' = [iter EXCEPT !.replayed = TRUE]
        /\ context' = ContextAfter(backend, resp.action, crop, "none", context)
     \/ /\ \E p \in FailPoints :
             /\ FailArg("replay", <<p>>)
             /\ context' = ContextAfter(backend, resp.action, crop, p, context)
        /\ gesture' = <<>>
        /\ UNCHANGED iter
  /\ UNCHANGED Caller
  /\ UNCHANGED <<Config, Page, elapsed, Locals, Clock, nCreate, nStart,
                 nNotify>>

AfterPause_TokenOnlyWithoutAction(age) ==
  IF ShotDue(age) THEN "probe" ELSE "sleep"

(* After the pause the iteration goes on with the token check.              *)
AfterPause(age) == "token"

(* time.sleep(0.08) after a replay.                                         *)
Pause ==
  /\ pc = "pause"
  /\ sinceShot' = Advance(sinceShot, REPLAY_PAUSE_MS)
  /\ Goes(AfterPause(sinceShot'), "pause", "ok")
  /\ sincePush' = AdvancePush(REPLAY_PAUSE_MS)
  /\ gesture' = <<>>
  /\ UNCHANGED <<Caller, context>>
  /\ UNCHANGED <<Config, Page, elapsed, Locals, pushed, nCreate, nStart,
                 nNotify, iter>>

AfterToken_ShotFirst(tok) ==
  IF ShotDue(sinceShot) THEN "probe"
  ELSE IF tok # <<>> THEN "notify" ELSE "sleep"

AfterToken(tok) ==
  IF tok # <<>> THEN "notify"
  ELSE IF ShotDue(sinceShot) THEN "probe" ELSE "sleep"

TokenProbe_PlaywrightRaw(b, f, err) ==
  IF err = "none"
  THEN [raised |-> FALSE,
        token |-> IF b = "playwright" /\ f # NoField THEN f ELSE GetToken(f)]
  ELSE [raised |-> b = "selenium", token |-> <<>>]

(* _get_token(...) when reading the field goes well (err = "none") and when *)
(* it raises something else than element-not-found: Selenium catches        *)
(* NoSuchElementException only, Playwright catches every Exception and      *)
(* returns None.                                                            *)
TokenProbe(b, f, err) ==
  IF err = "none"
  THEN [raised |-> FALSE, token |-> GetToken(f)]
  ELSE [raised |-> b = "selenium", token |-> <<>>]

(* token = _get_token(...) in the loop of backend b.                        *)
TokenCheckAs(b) ==
  /\ pc = "token"
  /\ iter' = [iter EXCEPT !.consulted = TRUE]
  /\ resp' = NoResp
  /\ \E err \in {"none", "error"} :
       LET p == TokenProbe(b, field, err) IN
       IF p.raised
       THEN /\ Fail("token")
            /\ UNCHANGED token
       ELSE /\ token' = p.token
            /\ Goes(AfterToken(token'), "token",
                    IF err = "none" THEN "read" ELSE "swallowed")
  /\ UNCHANGED <<Caller, context>>
  /\ UNCHANGED <<Config, Page, elapsed, crop, res, shotRect, Clock,
                 nCreate, nStart, nNotify>>
  /\ UNCHANGED gesture

TokenCheck == TokenCheckAs(backend)

(* api.notify_solved(task_id, token); return.                               *)
Notify ==
  /\ pc = "notify"
  /\ nNotify' = Bump(nNotify, CountCap)
  /\ \/ LoopReturnsArg("notify", "ok", token, "notified")
     \/ /\ FailArg("notify", token)
        /\ token' = <<>>
        /\ UNCHANGED <<shotRect, sinceShot, sincePush>>
  /\ UNCHANGED <<Caller, context>>
  /\ UNCHANGED <<Config, Page, elapsed, crop, res, resp, pushed, nCreate,
                 nStart, iter>>
  /\ UNCHANGED gesture

(* rect, w, h = _get_viewport_and_crop(...) inside the screenshot block.    *)
Probe ==
  /\ pc = "probe"
  /\ \/ /\ shotRect' = GetViewportAndCrop(frames)
        /\ Goes("capture", "probe", "ok")
     \/ /\ Fail("probe")
        /\ UNCHANGED shotRect
  /\ UNCHANGED <<Caller, context>>
  /\ UNCHANGED <<Config, Page, elapsed, crop, res, resp, token, Clock,
                 nCreate, nStart, nNotify, iter>>
  /\ UNCHANGED gesture

Capture ==
  /\ pc = "capture"
  /\ \/ /\ Goes("push", "capture", "ok")
        /\ UNCHANGED shotRect
     \/ /\ Fail("capture")
        /\ shotRect' = NoRect
  /\ UNCHANGED <<Caller, context>>
  /\ UNCHANGED <<Config, Page, elapsed, crop, res, resp, token, Clock,
                 nCreate, nStart, nNotify, iter>>
  /\ UNCHANGED gesture

(* api.update_screenshot(...); last_shot[0] = now.                          *)
Push ==
  /\ pc = "push"
  /\ pushed' = TRUE
  /\ sincePush' = 0
  /\ shotRect' = NoRect
  /\ \/ /\ pc' = "sleep"
        /\ ev' = EvRect("push", "ok", Dto(shotRect))
        /\ sinceShot' = 0
        /\ UNCHANGED <<result, loopExit, fails>>
     \/ /\ FailWith(EvRect("push", "raise", Dto(shotRect)))
        /\ UNCHANGED sinceShot
  /\ UNCHANGED <<Caller, context>>
  /\ UNCHANGED <<Config, Page, elapsed, crop, res, resp, token, nCreate,
                 nStart, nNotify, iter>>
  /\ UNCHANGED gesture

(* time.sleep(POLL_S) at the end of an iteration.                           *)
Sleep ==
  /\ pc = "sleep"
  /\ pc' = "poll"
  /\ ev' = Ev("sleep", "ok")
  /\ fails' = 0
  /\ iter' = IterReset
  /\ sinceShot' = Advance(sinceShot, POLL_MS)
  /\ sincePush' = AdvancePush(POLL_MS)
  /\ UNCHANGED <<Caller, context>>
  /\ UNCHANGED <<Config, Page, elapsed, Locals, pushed, result, loopExit,
                 nCreate, nStart, nNotify>>
  /\ UNCHANGED gesture

(* time.sleep(1.0) in the handler of the iteration.                         *)
Backoff ==
  /\ pc = "backoff"
  /\ pc' = "poll"
  /\ ev' = Ev("backoff", "ok")
  /\ iter' = IterReset
  /\ sinceShot' = Advance(sinceShot, BACKOFF_MS)
  /\ sincePush' = AdvancePush(BACKOFF_MS)
  /\ UNCHANGED <<Caller, context>>
  /\ UNCHANGED <<Config, Page, elapsed, Locals, pushed, result, loopExit,
                 nCreate, nStart, nNotify, fails>>
  /\ UNCHANGED gesture

(* KeyboardInterrupt delivered while _run_loop runs.                        *)
Interrupt ==
  /\ pc \in InLoop
  /\ IF InterruptCaught(pc)
     THEN /\ LoopReturns("interrupt", pc, "interrupted")
     ELSE /\ pc' = "done"
          /\ result' = Raise("KeyboardInterrupt")
          /\ loopExit' = "escaped"
          /\ ev' = Ev("interrupt", pc)
          /\ UNCHANGED <<fails, token, shotRect, sinceShot, sincePush>>
  /\ UNCHANGED <<Caller, context>>
  /\ UNCHANGED <<Config, Page, elapsed, crop, res, resp, pushed, nCreate,
                 nStart, nNotify, iter>>
  /\ gesture' = <<>>

----------------------------------------------------------------------------
(* Environment: the page changes under the program.                         *)
PageChangeIn(configs) ==
  /\ pc \notin Finished
  /\ \E fs \in configs \ {frames} : frames' = fs
  /\ UNCHANGED <<Caller, context>>
  /\ UNCHANGED <<Config, field, pc, elapsed, Locals, Clock, result, loopExit,
                 ev, History>>
  /\ UNCHANGED gesture

PageChange == PageChangeIn(FrameConfigs)

FieldChange ==
  /\ pc \notin Finished
  /\ \E f \in FieldValues \ {field} : field' = f
  /\ UNCHANGED <<Caller, context>>
  /\ UNCHANGED <<Config, frames, pc, elapsed, Locals, Clock, result, loopExit,
                 ev, History>>
  /\ UNCHANGED gesture

Next ==
  \/ WaitForIframe \/ Settle \/ ClickCheckbox \/ WaitExpanded \/ Delay
  \/ CreateTask \/ FirstShot \/ StartSession
  \/ Poll \/ Replay \/ Pause \/ TokenCheck \/ Notify
  \/ Probe \/ Capture \/ Push \/ Sleep \/ Backoff
  \/ Interrupt
  \/ PageChange \/ FieldChange

Spec == Init /\ [][Next]_vars

----------------------------------------------------------------------------
(* The waits and the checkbox click alone, over more iframe sizes: around   *)
(* the 50px filter, between 250 and 260, exactly 260.                       *)
Sliver == Rect(0, 0, 49, 300)
Medium == Rect(10, 20, 255, 255)
Almost == Rect(10, 20, 260, 259)
Exact == Rect(10, 20, 260, 260)

GateFrameConfigs ==
  FrameConfigs \cup { <<Sliver>>, <<Medium>>, <<Almost>>, <<Exact>>,
                      <<Tiny, Checkbox>>, <<Challenge, Checkbox>> }

GateInit ==
  /\ client = Direct
  /\ backend \in {"selenium", "playwright"}
  /\ timeout \in Timeouts
  /\ opensAuto \in BOOLEAN
  /\ pc = "wait_iframe"
  /\ frames \in GateFrameConfigs
  /\ field = NoField
  /\ Fresh

GatePageChange == PageChangeIn(GateFrameConfigs)

GateNext ==
  \/ WaitForIframe \/ Settle \/ ClickCheckbox \/ WaitExpanded
  \/ GatePageChange

GateSpec == GateInit /\ [][GateNext]_vars

(* The waits are loops of the running program: a wait that can go on goes  *)
(* on. Nothing obliges the browser to fail, so the steps in which a probe   *)
(* raises are left out of the fairness condition.                           *)
WaitRuns == (WaitForIframe \/ WaitExpanded) /\ result'.val # "Error"

GateLive == GateInit /\ [][GateNext]_vars /\ WF_vars(WaitRuns)

----------------------------------------------------------------------------
(* The replay alone, as a function of the action and of the crop it is     *)
(* given (an Optional[_CropRect]): clicks and drags at and around the edges *)
(* of the crop, with no crop, with distances that twelve does not divide.   *)
Accepted == [errorId |-> 0, taskId |-> "t1"]

(* A session inside _run_loop, nothing notified or pushed yet.              *)
InSession ==
  /\ timeout = NoTimeout
  /\ opensAuto = FALSE
  /\ field = NoField
  /\ elapsed = 0
  /\ res = Accepted
  /\ token = <<>>
  /\ sincePush = 0
  /\ pushed = FALSE
  /\ shotRect = NoRect
  /\ gesture = <<>>
  /\ result = Running
  /\ loopExit = "none"
  /\ nCreate = 1
  /\ nStart = 1
  /\ nNotify = 0
  /\ fails = 0
  /\ client = Direct
  /\ called = 0
  /\ outcome = Running
  /\ context = "top"

Wide == Rect(20, 10, 500, 500)
RouteCrops == { NoRect, Wide }

ClickPoints ==
  { Pt(100, 50), Pt(20, 10), Pt(519, 509), Pt(520, 509), Pt(519, 510),
    Pt(19, 10), Pt(20, 9), Pt(600, 50) }

DragPaths ==
  { <<Pt(100, 50), Pt(160, 110)>>, <<Pt(100, 50), Pt(107, 55)>>,
    <<Pt(160, 110), Pt(100, 50)>>, <<Pt(20, 10), Pt(519, 509)>>,
    <<Pt(100, 50), Pt(520, 50)>>, <<Pt(19, 50), Pt(100, 50)>>,
    <<Pt(5, 5), Pt(17, 3)>>, <<Pt(100, 50), Pt(100, 50)>> }

RouteActions ==
  { ActionAt("click", TRUE, p, NoPt) : p \in ClickPoints }
  \cup { ActionAt("drag", TRUE, d[1], d[2]) : d \in DragPaths }

RouteInit ==
  /\ backend \in {"selenium", "playwright"}
  /\ pc = "replay"
  /\ frames = <<Checkbox, Challenge>>
  /\ crop \in RouteCrops
  /\ \E a \in RouteActions : resp = [status |-> "active", action |-> a]
  /\ sinceShot = 0
  /\ ev = Ev("poll", "action")
  /\ iter = [IterReset EXCEPT !.active = TRUE]
  /\ InSession

RouteNext == Replay

RouteSpec == RouteInit /\ [][RouteNext]_vars

----------------------------------------------------------------------------
(* The Frame Locator alone, as a function of the iframes of the page: the   *)
(* probe of the screenshot block over every page of up to MaxFrames iframes *)
(* of these shapes (two of them of equal area).                             *)
MaxFrames == 3
Least == Rect(0, 0, 50, 50)
Tall == Rect(5, 5, 74, 300)
FrameShapes == { Tiny, Sliver, Least, Checkbox, Tall, Challenge }

RECURSIVE FrameSeqs(_)
FrameSeqs(n) ==
  IF n = 0 THEN { <<>> }
  ELSE LET shorter == FrameSeqs(n - 1) IN
       shorter \cup { Append(fs, r) : fs \in { q \in shorter : Len(q) = n - 1 },
                                     r \in FrameShapes }

LocatorInit ==
  /\ backend \in {"selenium", "playwright"}
  /\ pc = "probe"
  /\ frames \in FrameSeqs(MaxFrames)
  /\ crop = Challenge
  /\ resp = NoResp
  /\ sinceShot = SCREENSHOT_INTERVAL_MS
  /\ ev = Ev("token", "read")
  /\ iter = [IterReset EXCEPT !.active = TRUE, !.consulted = TRUE]
  /\ InSession

LocatorNext == Probe

LocatorSpec == LocatorInit /\ [][LocatorNext]_vars

----------------------------------------------------------------------------
(* RemoteCaptchaClient.solve and RemoteCaptchaClient.run: the entry points  *)
(* that call run_solve, invoke the after_solve callback and report.         *)

(* task_id is not None.                                                     *)
HasTaskId(r) == r.kind = "return" /\ r.val # "None"

(* solve: task_id is not None and after_solve is not None. run has          *)
(* returned False before when task_id is None.                              *)
Invokes(r, c) == HasTaskId(r) /\ c.after_solve # "none"

(* What input() of keep_browser_open can do: it is only reached with a task *)
(* id; it returns, or raises EOFError or KeyboardInterrupt.                 *)
Prompts(r, c) ==
  IF c.entry = "run" /\ c.keep_browser_open /\ HasTaskId(r)
  THEN {"enter", "EOFError", "KeyboardInterrupt"}
  ELSE {"none"}

(* solve returns what run_solve returned; an exception of run_solve leaves  *)
(* solve as it is.                                                          *)
SolveOutcome(r) == r

(* run: False when task_id is None and in both except clauses (TimeoutError *)
(* and Exception, which input()'s EOFError reaches too); True once the      *)
(* prompt is over; a KeyboardInterrupt is no Exception and leaves run       *)
(* through the finally clause.                                              *)
RunOutcome(r, prompt) ==
  IF r.kind = "raise"
  THEN IF r.val = "KeyboardInterrupt" THEN r ELSE Return("False")
  ELSE IF r.val = "None" THEN Return("False")
  ELSE IF prompt = "KeyboardInterrupt" THEN Raise("KeyboardInterrupt")
  ELSE IF prompt = "EOFError" THEN Return("False")
  ELSE Return("True")

(* The callback: a call that returns or raises an Exception, which is       *)
(* caught and logged; no call at all otherwise.                             *)
Callback(r, c) == IF Invokes(r, c) THEN c.after_solve ELSE "not_called"

(* run_solve is over: the rest of solve or of run.                          *)
ClientReturns ==
  /\ pc = "done"
  /\ client.entry \in {"solve", "run"}
  /\ pc' = "returned"
  /\ called' = IF Invokes(result, client) THEN Bump(called, CountCap)
               ELSE called
  /\ \E prompt \in Prompts(result, client) :
       /\ outcome' = IF client.entry = "solve" THEN SolveOutcome(result)
                     ELSE RunOutcome(result, prompt)
       /\ ev' = EvArg(client.entry, Callback(result, client), <<prompt>>)
  /\ UNCHANGED <<Config, client, Page, elapsed, Locals, Clock, gesture,
                 result, loopExit, History, context>>

ClientFrames == { <<Checkbox>>, <<Checkbox, Challenge>> }
ClientFields == { <<>>, <<"b">> }

ClientInit ==
  /\ client \in { Client(e, a, k) : e \in {"solve", "run"},
                                     a \in {"none", "returns", "raises"},
                                     k \in BOOLEAN }
  /\ backend = "selenium"
  /\ timeout \in {NoTimeout, 0}
  /\ opensAuto = FALSE
  /\ pc = "wait_iframe"
  /\ frames \in ClientFrames
  /\ field \in ClientFields
  /\ Fresh

ClientNext ==
  \/ WaitForIframe \/ Settle \/ ClickCheckbox \/ WaitExpanded \/ Delay
  \/ CreateTask \/ FirstShot \/ StartSession
  \/ Poll \/ Replay \/ Pause \/ TokenCheck \/ Notify
  \/ Probe \/ Capture \/ Push \/ Sleep \/ Backoff
  \/ Interrupt
  \/ ClientReturns

ClientSpec == ClientInit /\ [][ClientNext]_vars

----------------------------------------------------------------------------
(* _run_loop on its own, from its first poll and left uninterrupted, with   *)
(* the steps of the loop taken fairly: the loop is a running thread, the    *)
(* page is not.                                                             *)
LoopInit ==
  /\ backend \in {"selenium", "playwright"}
  /\ pc = "poll"
  /\ frames = <<Checkbox, Challenge>>
  /\ crop = Challenge
  /\ resp = NoResp
  /\ sinceShot = 0
  /\ ev = EvRect("start", "ok", Challenge)
  /\ iter = IterReset
  /\ InSession

LoopStep ==
  \/ Poll \/ Replay \/ Pause \/ TokenCheck \/ Notify
  \/ Probe \/ Capture \/ Push \/ Sleep \/ Backoff

LoopNext == LoopStep \/ FieldChange

LoopLive == LoopInit /\ [][LoopNext]_vars /\ WF_vars(LoopStep)

----------------------------------------------------------------------------
(* Properties.                                                              *)

CreateOk == res # NoRes /\ res.errorId = 0 /\ res.taskId \notin {NoId, ""}

(* C1: notifySolved is invoked at most once per session, and only after the *)
(* Token Watcher returned a non-empty token in the same iteration. The code *)
(* retries the call after a failed one.                                     *)
C1_NotifyAtMostOnce ==
  /\ nNotify <= 1
  /\ (ev.op = "notify" => (ev.arg # <<>> /\ iter.consulted))

(* C2: an Exception that reaches the handler of an iteration (from the      *)
(* poll, the replay, the token check or notifySolved) never ends _run_loop: *)
(* control goes to the backoff sleep and from there to the next poll.       *)
C2_ErrorNeverEndsLoop ==
  [][ /\ (pc \in {"poll", "replay", "token", "notify"} /\ ev'.op = pc
            /\ ev'.out = "raise")
         => (pc' = "backoff" /\ loopExit' = "none" /\ result' = Running)
      /\ (pc = "backoff" /\ pc' # "backoff" /\ ev'.op # "interrupt")
         => (pc' = "poll" /\ loopExit' = "none" /\ result' = Running)
      /\ (loopExit' # loopExit)
         => loopExit' \in {"ended", "notified", "interrupted", "escaped"}
    ]_vars

(* C2 witness: the next poll is due after FailCap consecutive failures.     *)
C2_Witness == pc = "poll" /\ fails = FailCap /\ ev = Ev("backoff", "ok")

(* C3: a user interrupt at any point of the loop, the backoff sleep         *)
(* included, makes _run_loop return normally.                               *)
C3_InterruptEndsLoopCleanly ==
  /\ result # Raise("KeyboardInterrupt")
  /\ (ev.op = "interrupt" => (loopExit = "interrupted" /\ pc = "done"
                               /\ result.kind = "return"))

(* C4 as claimed: an iteration that finds a token in the field when it      *)
(* starts calls notifySolved with that token and ends the loop, whatever    *)
(* the poll returns.                                                        *)
C4_TokenAtStartAlwaysNotified ==
  /\ (loopExit = "ended" => iter.tok = <<>>)
  /\ (iter.tok # <<>> /\ iter.active
        => pc \in {"replay", "pause", "token", "notify", "done"})
  /\ (loopExit = "notified" => ev.arg = iter.tok)

(* C4 as amended: when the Token Watcher reads a field value that is not    *)
(* empty after stripping, in an iteration whose poll did not return solved  *)
(* or expired, the iteration calls notifySolved with the stripped value,    *)
(* with or without an action in the response, and the loop ends when the    *)
(* call succeeds.                                                           *)
C4_TokenReadIsNotified ==
  [][ /\ (pc = "token" /\ ev' = Ev("token", "read") /\ field # NoField
            /\ Strip(field) # <<>>)
         => (pc' = "notify" /\ token' = Strip(field))
      /\ (pc = "notify" /\ ev'.op = "notify")
         => (ev'.arg = token /\ nNotify' = Bump(nNotify, CountCap))
      /\ (pc = "notify" /\ ev'.op = "notify" /\ ev'.out = "ok")
         => (pc' = "done" /\ loopExit' = "notified"
             /\ result' = Return(res.taskId))
      /\ (pc = "poll" /\ ev'.op = "poll" /\ ev'.out # "raise"
            /\ resp'.status \notin {"solved", "expired"})
         => pc' \in {"replay", "token"}
      /\ (pc = "pause" /\ ev'.op = "pause") => pc' = "token"
    ]_vars

(* C4 witness: the loop ended by notifySolved of the stripped token in an   *)
(* iteration that also replayed an action.                                  *)
C4_Witness ==
  /\ loopExit = "notified" /\ iter.replayed
  /\ field = <<" ", "a", " ">> /\ ev = EvArg("notify", "ok", <<"a">>)

(* C5 as claimed: an iteration whose poll returned a status that is not     *)
(* terminal consults the Token Watcher before it ends.                      *)
C5_EveryActiveIterationConsults ==
  (pc \in {"sleep", "backoff"} /\ iter.active) => iter.consulted

(* C5 as amended: such an iteration consults the Token Watcher unless its   *)
(* replay raised, which sends it to the backoff at once.                    *)
C5_ConsultsUnlessReplayRaised ==
  (pc \in {"notify", "probe", "capture", "push", "sleep", "backoff"}
     /\ iter.active /\ ~iter.consulted)
  => (pc = "backoff" /\ ev.op = "replay" /\ ev.out = "raise")

(* C5 witness: an iteration replayed an action and consulted the watcher.   *)
C5_Witness == pc = "sleep" /\ iter.active /\ iter.replayed /\ iter.consulted

(* C6: a poll that returns solved or expired ends the loop in that          *)
(* iteration: nothing is replayed, the Token Watcher is not consulted and   *)
(* no request follows.                                                      *)
C6_TerminalStatusStops ==
  /\ (ev.op = "poll" /\ ev.out # "raise"
        /\ resp.status \in {"solved", "expired"})
     => (pc = "done" /\ loopExit = "ended")
  /\ loopExit = "ended"
     => (/\ pc = "done" /\ ev = Ev("poll", "ended")
         /\ resp.status \in {"solved", "expired"}
         /\ ~iter.replayed /\ ~iter.consulted
         /\ result = Return(res.taskId))

(* C6 witness: the session ended on a response that carried an action,      *)
(* with a token in the field.                                               *)
C6_Witness ==
  /\ loopExit = "ended" /\ resp.status = "expired"
  /\ Replayable(resp.action) /\ field = <<"b">>

(* C7: two consecutive pushScreenshot requests of the loop are at least     *)
(* SCREENSHOT_INTERVAL_MS apart, whether the earlier one failed or not.     *)
C7_PushCadence ==
  (pc = "push" /\ pushed) => sincePush >= SCREENSHOT_INTERVAL_MS

(* C8: when createTask answers with errorId != 0 or without a taskId,       *)
(* run_solve returns None and issues no further request.                    *)
C8_RejectedTaskStops ==
  (res # NoRes /\ (res.errorId # 0 \/ res.taskId \in {NoId, ""}))
  => (/\ pc = "done" /\ result = Return("None")
      /\ ev = Ev("create", "rejected")
      /\ nCreate = 1 /\ nStart = 0 /\ nNotify = 0 /\ ~pushed
      /\ loopExit = "none")

(* C8 witness: a rejection, and a response without a taskId.                *)
C8_Witness ==
  /\ result = Return("None") /\ res.errorId = 0 /\ res.taskId = NoId

(* C9: on any createTask failure, a transport failure included, run_solve   *)
(* returns None and raises nothing.                                         *)
C9_CreateFailureReturnsNone ==
  (ev.op = "create" /\ pc = "done") => result = Return("None")

(* C10 as claimed: once createTask succeeded, startSession is called        *)
(* exactly once.                                                            *)
C10_StartExactlyOnce ==
  (pc = "done" /\ CreateOk) => nStart = 1

(* C10 as amended: startSession is called at most once, after the first     *)
(* screenshot was captured and before any poll, push or notify; it is       *)
(* called exactly once unless that first capture raises.                    *)
C10_StartOnceAfterFirstShot ==
  /\ [](nStart <= 1)
  /\ []((pc \in InLoop \/ pushed \/ nNotify > 0 \/ loopExit # "none")
          => nStart = 1)
  /\ []((pc = "done" /\ CreateOk /\ nStart = 0)
          => ev = Ev("first_shot", "raise"))
  /\ [][ /\ (nStart' # nStart) => (pc = "start" /\ CreateOk)
         /\ (pc' = "start" /\ pc # "start") => ev' = Ev("first_shot", "ok")
       ]_vars

(* C10 witness: the loop retries after a failed iteration, one startSession *)
(* behind it.                                                               *)
C10_Witness == pc = "poll" /\ fails > 0 /\ nStart = 1

(* A step of the program, not of the page.                                  *)
ProgramStep == frames' = frames /\ field' = field

(* C11: _wait_expanded returns only a rectangle of at least 260 x 260: the  *)
(* rectangle run_solve holds after the wait is never absent and never below *)
(* the threshold in either dimension, whatever the probes returned before.  *)
C11_WaitReturnsExpandedRect ==
  /\ (pc = "delay" => crop # NoRect)
  /\ (crop # NoRect => (crop.width >= MIN_SIZE /\ crop.height >= MIN_SIZE))
  /\ (ev = Ev("wait_expanded", "sleep") => crop = NoRect)

(* C11 witness: the wait returned the smallest rectangle that qualifies.    *)
C11_Witness ==
  pc = "delay" /\ crop = Exact /\ ev = Ev("wait_expanded", "expanded")

(* C12: with a budget configured, _wait_expanded does not wait forever, and *)
(* when it gives up on a widget that is not expanded it raises TimeoutError *)
(* no earlier than the budget; with no budget it never raises TimeoutError  *)
(* and a probe that finds the widget not expanded is followed by the sleep  *)
(* and another probe.                                                       *)
C12_ExpansionWaitTimeout ==
  /\ ((pc = "wait_expanded" /\ timeout # NoTimeout)
        ~> (pc # "wait_expanded"))
  /\ [][ /\ (pc = "wait_expanded" /\ result'.kind = "raise"
               /\ result'.val = "TimeoutError")
            => (timeout # NoTimeout /\ elapsed >= timeout
                /\ ~IsAlreadyExpanded(frames))
         /\ (pc = "wait_expanded" /\ pc' = "delay")
            => (crop' = GetViewportAndCrop(frames)
                /\ crop'.width >= MIN_SIZE /\ crop'.height >= MIN_SIZE)
         /\ (pc = "wait_expanded" /\ timeout = NoTimeout /\ ProgramStep
               /\ result' = Running)
            => (IF IsAlreadyExpanded(frames) THEN pc' = "delay"
                ELSE pc' = "wait_expanded")
         /\ (pc = "wait_expanded" /\ pc' = "wait_expanded" /\ ProgramStep)
            => (~IsAlreadyExpanded(frames)
                /\ (timeout = NoTimeout \/ elapsed < timeout))
       ]_vars

(* C12 witness: the wait slept through its budget and raised TimeoutError.  *)
C12_Witness ==
  /\ result = Raise("TimeoutError") /\ ev.op = "wait_expanded"
  /\ timeout >= 1 /\ elapsed = timeout

(* C13: in both backends _wait_for_iframe with a budget N, N = 0 included,  *)
(* raises TimeoutError once N seconds have passed without an iframe, and    *)
(* only without a budget it goes on waiting.                                *)
C13_IframeWaitDeadline ==
  [][ /\ (pc = "wait_iframe" /\ timeout # NoTimeout /\ elapsed >= timeout
           /\ ProgramStep /\ pc' # "settle")
         => result' = Raise("TimeoutError")
      /\ (pc = "wait_iframe" /\ result'.kind = "raise")
         => (timeout # NoTimeout /\ elapsed >= timeout)
    ]_vars

(* C14: _wait_for_iframe completes only while an iframe of at least         *)
(* 50 x 50 is on the page.                                                  *)
C14_IframeWaitNeedsQualifyingFrame ==
  [][ (pc = "wait_iframe" /\ pc' = "settle")
        => GetViewportAndCrop(frames) # NoRect ]_vars

(* C15: after the iframe wait, no click when the widget opens by itself;    *)
(* otherwise the click is attempted exactly when the widget is not yet      *)
(* expanded, and with a largest qualifying iframe below 260 in some         *)
(* dimension it is one click aimed at an iframe of the page that is at      *)
(* least 50 x 50 and not expanded.                                          *)
C15_ClickIffNotExpanded ==
  [][ /\ (pc = "settle" /\ opensAuto) => pc' # "click_checkbox"
      /\ (pc = "settle" /\ ~opensAuto /\ ProgramStep /\ result' = Running)
         => (pc' = "click_checkbox" <=> ~IsAlreadyExpanded(frames))
      /\ (pc = "click_checkbox" /\ ProgramStep /\ result' = Running
           /\ GetViewportAndCrop(frames) # NoRect
           /\ ~IsAlreadyExpanded(frames))
         => /\ gesture' # <<>>
            /\ gesture'[Len(gesture')].type = "click"
            /\ \A k \in 1 .. Len(gesture') :
                 gesture'[k].target = gesture'[1].target
            /\ \E i \in 1 .. Len(frames) : gesture'[1].target = frames[i]
            /\ gesture'[1].target.width >= MIN_FRAME
            /\ gesture'[1].target.height >= MIN_FRAME
            /\ ~IsExpandedRect(gesture'[1].target)
    ]_vars

(* Whether the point lies in [left, left+width) x [top, top+height).        *)
InCrop(p, c) ==
  /\ c # NoRect
  /\ c.left <= p.x /\ p.x <= c.left + c.width - 1
  /\ c.top <= p.y /\ p.y <= c.top + c.height - 1

(* C16: a replayed click is one click, inside the nested frame at           *)
(* (x - left, y - top) exactly when (x, y) lies within the crop, else (also *)
(* with no crop) on the outer page at (x, y).                               *)
C16_ClickRouting ==
  (pc = "pause" /\ ev = Ev("replay", "ok") /\ resp.action.kind = "click")
    => LET p == resp.action.from IN
       /\ Len(gesture) = 1
       /\ gesture[1].type = "click"
       /\ IF InCrop(p, crop)
          THEN /\ gesture[1].ctx = "frame"
               /\ gesture[1].x = p.x - crop.left
               /\ gesture[1].y = p.y - crop.top
          ELSE /\ gesture[1].ctx = "page"
               /\ gesture[1].x = p.x
               /\ gesture[1].y = p.y

DownAt(g) == CHOOSE i \in 1 .. Len(g) : g[i].type = "down"

(* C17: a replayed drag runs inside the nested frame, pressed at the        *)
(* translated from and released at the translated to, exactly when both     *)
(* endpoints lie within the crop; else (also with no crop) every event of   *)
(* it is on the outer page, pressed at from and released at to.             *)
C17_DragRouting ==
  (pc = "pause" /\ ev = Ev("replay", "ok") /\ resp.action.kind = "drag")
    => LET f == resp.action.from
           t == resp.action.to
           both == InCrop(f, crop) /\ InCrop(t, crop)
           dx == IF both THEN crop.left ELSE 0
           dy == IF both THEN crop.top ELSE 0
           n == Len(gesture)
       IN /\ n >= 2
          /\ \A i \in 1 .. n :
               gesture[i].ctx = (IF both THEN "frame" ELSE "page")
          /\ \E i \in 1 .. n : gesture[i].type = "down"
          /\ gesture[DownAt(gesture)].x = f.x - dx
          /\ gesture[DownAt(gesture)].y = f.y - dy
          /\ gesture[n].type = "up"
          /\ gesture[n].x = t.x - dx
          /\ gesture[n].y = t.y - dy

(* The distance of twelve times v from the exact interpolation is below     *)
(* twelve: v is within a pixel of from + (to - from) * i / 12.              *)
NearLine(v, a, b, i) ==
  LET e == DRAG_STEPS * v - (DRAG_STEPS * a + (b - a) * i)
  IN e < DRAG_STEPS /\ 0 - e < DRAG_STEPS

(* C18: on every path a replayed drag is one down at from, then exactly     *)
(* twelve moves on the line from from to to, the twelfth on to, then one up *)
(* at to, with nothing else from the down on. (A move that brings the       *)
(* pointer to from before the down is not counted.)                         *)
C18_DragSequence ==
  (pc = "pause" /\ ev = Ev("replay", "ok") /\ resp.action.kind = "drag")
    => LET g == gesture
           n == Len(g)
           d == DownAt(g)
           a == Pt(g[d].x, g[d].y)
           b == Pt(g[n].x, g[n].y)
       IN /\ Cardinality({i \in 1 .. n : g[i].type = "down"}) = 1
          /\ Cardinality({i \in 1 .. n : g[i].type = "up"}) = 1
          /\ \A i \in 1 .. d - 1 : g[i].type = "move"
          /\ g[n].type = "up"
          /\ n - d = DRAG_STEPS + 1
          /\ \A i \in 1 .. n - d - 1 :
               /\ g[d + i].type = "move"
               /\ i <= DRAG_STEPS
                    => (NearLine(g[d + i].x, a.x, b.x, i)
                        /\ NearLine(g[d + i].y, a.y, b.y, i))
          /\ g[n - 1].x = b.x /\ g[n - 1].y = b.y
          /\ b.x - a.x = resp.action.to.x - resp.action.from.x
          /\ b.y - a.y = resp.action.to.y - resp.action.from.y

(* C19: the crop a replay routes with is the rectangle the loop probed      *)
(* last: every probe of the loop renews it, and a replay leaves it alone.   *)
C19_ReplayUsesLastProbedCrop ==
  [][ /\ (pc = "probe" /\ pc' = "capture")
         => (shotRect' = GetViewportAndCrop(frames) /\ crop' = shotRect')
      /\ (pc = "replay" /\ ProgramStep) => crop' = crop
    ]_vars

(* C20: the Frame Locator returns the rectangle of an iframe of at least    *)
(* 50 x 50 of maximal area among those, and no rectangle exactly when the   *)
(* page has no such iframe.                                                 *)
C20_LocatorReturnsLargestQualifying ==
  (pc = "capture" /\ ev = Ev("probe", "ok"))
    => LET q == { i \in 1 .. Len(frames) :
                    frames[i].width >= 50 /\ frames[i].height >= 50 }
       IN IF q = {}
          THEN shotRect = NoRect
          ELSE /\ \E i \in q : shotRect = frames[i]
               /\ \A j \in q :
                    frames[j].width * frames[j].height
                      <= shotRect.width * shotRect.height

(* C20 witness: three iframes, one below the filter; the largest is         *)
(* returned.                                                                *)
C20_Witness ==
  /\ pc = "capture" /\ frames = <<Sliver, Challenge, Checkbox>>
  /\ shotRect = Challenge

----------------------------------------------------------------------------
(* Error handling of the geometry probe.                                    *)

(* C21: a geometry probe that raises is not fatal: neither the look of the  *)
(* Checkbox Activator nor a probe of the Expansion Waiter ends run_solve    *)
(* with the probe's error.                                                  *)
C21_ProbeErrorNotFatal ==
  ~(/\ pc = "done"
    /\ result = Raise("Error")
    /\ ev.op \in {"settle", "wait_expanded"})

----------------------------------------------------------------------------
(* The rectangle sent with the uploads.                                     *)

(* C22 as stated: a push sends the rectangle probed in its own iteration,   *)
(* and the rectangle sent with startSession is the geometry of the page at  *)
(* the time the first screenshot is captured.                               *)
C22_UploadsCarryFreshRect ==
  [][ /\ (pc = "push" /\ ev'.op = "push") => ev'.rect = shotRect
      /\ (pc = "first_shot" /\ pc' = "start")
           => crop = GetViewportAndCrop(frames)
      /\ (pc = "start" /\ ProgramStep) => ev'.rect = crop
    ]_vars

(* C22, amended: every upload carries one rectangle. A push is reached      *)
(* only through the probe and the capture of its own iteration and sends    *)
(* what that probe returned; startSession sends the rectangle the Expansion *)
(* Waiter returned, whatever the page has become since.                     *)
C22_UploadsCarryProbedRect ==
  [][ /\ (pc = "probe" /\ pc' = "capture")
           => shotRect' = GetViewportAndCrop(frames)
      /\ pc' = "capture" => pc \in {"probe", "capture"}
      /\ pc' = "push" => pc \in {"capture", "push"}
      /\ pc \in {"capture", "push"} /\ pc' \in {"capture", "push"}
           => shotRect' = shotRect
      /\ (pc = "push" /\ ProgramStep) => ev'.op \in {"push", "interrupt"}
      /\ (pc = "push" /\ ev'.op = "push") => ev'.rect = shotRect
      /\ (pc = "wait_expanded" /\ pc' = "delay")
           => crop' = GetViewportAndCrop(frames)
      /\ pc \in {"delay", "create", "first_shot", "start"} => crop' = crop
      /\ (pc = "start" /\ ProgramStep)
           => ev'.op = "start" /\ ev'.rect = crop /\ IsExpandedRect(crop)
    ]_vars

(* C22 witness: a push that carried the rectangle of the checkbox, probed   *)
(* after the widget had collapsed, in a session started with the rectangle  *)
(* of the challenge.                                                        *)
C22_Witness ==
  /\ ev = EvRect("push", "ok", Checkbox)
  /\ crop = Challenge

----------------------------------------------------------------------------
(* The entry points of the client.                                          *)

(* The captcha was solved: the poll reported solved, or a token was seen    *)
(* and notifySolved accepted it.                                            *)
Solved ==
  \/ loopExit = "notified"
  \/ loopExit = "ended" /\ resp.status = "solved"

(* C23: run returns True exactly when the captcha was solved and False on   *)
(* every other ending; run_solve returns the task id exactly when the       *)
(* captcha was solved and None otherwise.                                   *)
C23_TrueIffSolved ==
  pc = "returned"
    => /\ HasTaskId(result) <=> Solved
       /\ client.entry = "run"
            => /\ outcome \in {Return("True"), Return("False")}
               /\ outcome = Return("True") <=> Solved

(* C24: the callback is invoked at most once, and only after the captcha    *)
(* was solved; a callback that raises leaves the result what it is after a  *)
(* callback that returns.                                                   *)
C24_CallbackOnlyAfterSolve ==
  pc = "returned"
    => /\ called <= 1
       /\ called > 0 => Solved
       /\ (ev.out = "raises" /\ client.entry = "solve") => outcome = result
       /\ ( /\ ev.out = "raises" /\ client.entry = "run"
            /\ ev.arg \in {<<"none">>, <<"enter">>} )
            => outcome = Return("True")

----------------------------------------------------------------------------
(* The loop: why it ends, the order of an iteration, failed pushes.         *)

(* C25: whenever _run_loop has ended, it ended for one of three reasons:    *)
(* the poll reported solved or expired, a non-empty token was submitted     *)
(* with notifySolved, or the user interrupted; the step that ended it was   *)
(* never a failure of an iteration.                                         *)
C25_LoopEndsForThreeReasons ==
  loopExit # "none"
    => /\ pc = "done"
       /\ ev.out # "raise"
       /\ \/ /\ loopExit = "ended"
             /\ ev = Ev("poll", "ended")
             /\ resp.status \in {"solved", "expired"}
             /\ result = Return(res.taskId)
          \/ /\ loopExit = "notified"
             /\ ev.op = "notify" /\ ev.out = "ok" /\ ev.arg # <<>>
             /\ nNotify > 0
             /\ result = Return(res.taskId)
          \/ /\ loopExit = "interrupted"
             /\ ev.op = "interrupt"
             /\ result = Return(res.taskId)
          \/ /\ loopExit = "escaped"
             /\ ev.op = "interrupt"
             /\ result = Raise("KeyboardInterrupt")

(* C25 witness: a loop that went through a failed iteration and its         *)
(* backoff, and ended when the next poll reported expired.                  *)
C25_Witness ==
  /\ loopExit = "ended" /\ resp.status = "expired"
  /\ fails > 0 /\ pushed

(* C26: a wait that times out ends run_solve with TimeoutError before any   *)
(* remote call: nothing was created, started, pushed or notified, and       *)
(* nothing runs afterwards. createTask and every later call are reached     *)
(* only with the interactive-size rectangle the Expansion Waiter returned.  *)
C26_TimeoutBeforeAnyRemoteCall ==
  /\ [](result = Raise("TimeoutError")
          => /\ pc = "done"
             /\ ev.op \in {"wait_iframe", "wait_expanded"}
             /\ res = NoRes /\ crop = NoRect
             /\ nCreate = 0 /\ nStart = 0 /\ nNotify = 0 /\ ~pushed
             /\ loopExit = "none")
  /\ []((pc \in {"create", "first_shot", "start"} \cup InLoop \/ nCreate > 0)
          => IsExpandedRect(crop))
  /\ [][result = Raise("TimeoutError") => UNCHANGED vars]_vars
  /\ [][(pc' = "create" /\ pc # "create")
          => (pc = "delay" /\ result' = Running)]_vars

(* C26 witness: the wait for the iframe ran out of its budget on a page     *)
(* without the widget.                                                      *)
C26_Witness ==
  /\ result = Raise("TimeoutError") /\ ev = Ev("wait_iframe", "raise")
  /\ frames = <<>> /\ nCreate = 0

(* C27: the steps of an iteration run in a fixed order: poll, replay (when  *)
(* the poll brought an action), token check, push (when the token check     *)
(* found no token and a screenshot is due), sleep. A poll is followed by at *)
(* most one replay, which is over before the token check and the next poll; *)
(* a push is only reached after the token check of its own iteration found  *)
(* no token.                                                                *)
C27_IterationOrder ==
  /\ [][ pc' # pc =>
         /\ pc' = "replay" => (pc = "poll" /\ Replayable(resp'.action))
         /\ pc' = "pause" => (pc = "replay" /\ iter'.replayed)
         /\ pc' = "token" => pc \in {"poll", "pause"}
         /\ pc' = "notify" => (pc = "token" /\ token' # <<>>)
         /\ pc' = "probe" => (pc = "token" /\ token' = <<>>)
         /\ pc' = "capture" => pc = "probe"
         /\ pc' = "push" => pc = "capture"
         /\ pc' = "sleep" => pc \in {"token", "probe", "capture", "push"}
         /\ pc' = "poll" => pc \in {"start", "sleep", "backoff"}
         /\ pc = "replay" => pc' \in {"pause", "backoff", "done"}
         /\ pc = "pause" => pc' \in {"token", "done"}
       ]_vars
  /\ [](pc \in {"notify"} \cup ShotBody => iter.consulted)
  /\ [](pc \in ShotBody => token = <<>>)
  /\ [](pc \in {"poll", "replay"} => ~iter.replayed /\ ~iter.consulted)

(* C27 witness: an iteration that replayed an action, checked the token,    *)
(* found none and reached the push.                                         *)
C27_Witness ==
  /\ pc = "push" /\ iter.replayed /\ iter.consulted /\ token = <<>>

----------------------------------------------------------------------------
(* The two backends.                                                        *)

Backends == {"selenium", "playwright"}

----------------------------------------------------------------------------
(* The fallback of the checkbox click.                                      *)

(* C29: in the Selenium backend a checkbox click that completes is the      *)
(* script's mousedown, mouseup, click at (50, 50) inside the checkbox frame *)
(* when the body of the frame reports a width or a height below 10 or the   *)
(* native click raised element-not-interactable, and the one native click   *)
(* at the offset from the body otherwise: one mechanism, never both, never  *)
(* neither.                                                                 *)
C29_CheckboxClickFallback ==
  [][ ( /\ pc = "click_checkbox" /\ backend = "selenium"
        /\ ev'.op = "click_checkbox" /\ ev'.out = "ok" )
      => LET w2 == ev'.arg[1]
             h2 == ev'.arg[2]
             f == CheckboxFrame(frames)
             synthetic == Len(gesture') = 3
                            /\ gesture'[1].type = "mousedown"
                            /\ gesture'[2].type = "mouseup"
                            /\ gesture'[3].type = "click"
                            /\ \A k \in 1 .. 3 :
                                 /\ gesture'[k].x = 50 /\ gesture'[k].y = 50
                                 /\ gesture'[k].ctx = "frame"
                                 /\ gesture'[k].target = f
             native == Len(gesture') = 1
                         /\ gesture'[1].type = "click"
                         /\ gesture'[1].ctx = "frame"
                         /\ gesture'[1].target = f
                         /\ gesture'[1].x = Max(15, (w2 \div 2) - 5)
                         /\ gesture'[1].y = Max(15, (h2 \div 2) - 5)
         IN /\ synthetic
                 <=> (w2 < 10 \/ h2 < 10 \/ ev'.arg[3] = "not_interactable")
            /\ native <=> ~synthetic
    ]_vars

(* C29 witness: the body is 9 wide and 74 high, and the click was the       *)
(* script's.                                                                *)
C29_Witness ==
  /\ ev = EvArg("click_checkbox", "ok", <<9, 74, "ok">>)
  /\ gesture = ClickCheckboxViaJs(Checkbox)

----------------------------------------------------------------------------
(* Failures of the screenshot block.                                        *)

(* C30: a probe, capture or push of the screenshot block that raises does   *)
(* not end the loop and does not go to the backoff: the iteration goes on   *)
(* with its sleep, the time since the last screenshot is kept, so the       *)
(* screenshot is still due when the next iteration has found no token. The  *)
(* time since the last screenshot restarts only with a push that succeeded. *)
C30_FailedPushHandledLocally ==
  /\ [][ /\ (pc \in ShotBody /\ ev'.op = pc /\ ev'.out = "raise")
              => /\ pc' = "sleep"
                 /\ loopExit' = "none" /\ result' = Running
                 /\ fails' = fails
                 /\ sinceShot' = sinceShot /\ ShotDue(sinceShot')
         /\ (pc \in InLoop /\ pc' \in InLoop /\ sinceShot' < sinceShot)
              => (pc = "push" /\ ev'.op = "push" /\ ev'.out = "ok")
         /\ (pc = "token" /\ pc' \in InLoop /\ ev'.op = "token"
               /\ ev'.out # "raise" /\ token' = <<>> /\ ShotDue(sinceShot))
              => pc' = "probe"
       ]_vars
  /\ []((pc = "sleep" /\ ev.op \in ShotBody /\ ev.out = "raise")
          => ShotDue(sinceShot))

(* C30 witness: a push attempted one poll sleep after a push that failed.   *)
C30_Witness ==
  /\ pc = "push" /\ pushed /\ sincePush = POLL_MS
  /\ fails = 0 /\ ev = Ev("capture", "ok")

----------------------------------------------------------------------------
(* The browsing context of the Selenium driver.                             *)

(* C31: the driver is switched to the top-level document whenever a step    *)
(* of the program is over, after an in-frame click or drag and after the    *)
(* checkbox click, whether they returned or raised: the probes, the token   *)
(* check and the screenshots of the loop run against the outer page.        *)
C31_DriverBackAtTopLevel ==
  /\ context = "top"
  /\ pc \in {"token", "probe", "capture", "push", "wait_expanded"}
       => context = "top"

(* C31 witness: an in-frame replay raised inside the frame, and the driver  *)
(* is back at the top-level document for the backoff.                       *)
C31_Witness ==
  /\ backend = "selenium" /\ pc = "backoff"
  /\ ev = EvArg("replay", "raise", <<"script">>)
  /\ InFrame(backend, resp.action, crop)
  /\ context = "top"

----------------------------------------------------------------------------
(* Action descriptors that are not replayed.                                *)

(* C32: a poll whose response carries a click without x or y, a drag        *)
(* without from or to, an action of another type or something that is not   *)
(* an object goes straight to the token check: no pointer event, no         *)
(* post-replay pause, no backoff; pointer events in the loop only ever      *)
(* belong to the replay of a complete click or drag.                        *)
C32_IncompleteActionNotReplayed ==
  /\ [][ ( /\ pc = "poll" /\ ev'.op = "poll"
           /\ ev'.out \in {"action", "no_action"}
           /\ \/ resp'.action.kind \notin {"click", "drag"}
              \/ ~resp'.action.complete )
         => /\ pc' = "token" /\ ev'.out = "no_action"
            /\ gesture' = <<>>
            /\ sinceShot' = sinceShot /\ sincePush' = sincePush
            /\ fails' = fails /\ ~iter'.replayed
       ]_vars
  /\ []((pc \in InLoop /\ gesture # <<>>)
          => /\ pc = "pause"
             /\ resp.action.kind \in {"click", "drag"}
             /\ resp.action.complete)
  /\ []((pc \in {"replay", "pause"})
          => (resp.action.kind \in {"click", "drag"} /\ resp.action.complete))
  /\ []((pc \in {"token", "notify"} \cup ShotBody /\ ~iter.replayed)
          => ev.op \in {"poll", "token", "probe", "capture"})

(* C32 witness: the poll brought a drag without its endpoints while a       *)
(* screenshot is due, and the iteration is at the token check.              *)
C32_Witness ==
  /\ pc = "token" /\ ev = Ev("poll", "no_action")
  /\ resp.action = Action("drag", FALSE)
  /\ gesture = <<>> /\ ~iter.replayed /\ ShotDue(sinceShot)

----------------------------------------------------------------------------
(* The rectangle run_solve hands on.                                        *)

(* C33: from the return of the Expansion Waiter on, run_solve holds a       *)
(* rectangle of at least 260 x 260: startSession carries it, the loop is    *)
(* entered with it, and no replay ever finds the rectangle absent.          *)
C33_HandedCropIsExpanded ==
  /\ [](pc \in {"delay", "create", "first_shot", "start"} \cup InLoop
          => /\ crop # NoRect
             /\ crop.width >= MIN_SIZE /\ crop.height >= MIN_SIZE)
  /\ [](pc = "replay" => HasCrop(crop))
  /\ [][ /\ (pc = "wait_expanded" /\ pc' = "delay")
              => crop' = GetViewportAndCrop(frames)
         /\ (pc \in {"delay", "create", "first_shot", "start"} \cup InLoop
               /\ pc' # "done")
              => crop' = crop
         /\ (pc = "start" /\ ev'.op = "start")
              => (ev'.rect = crop /\ ev'.rect # NoRect)
       ]_vars

(* C33 witness: the Selenium loop replays inside the frame with the         *)
(* rectangle of the Expansion Waiter although the page has no iframe left.  *)
C33_Witness ==
  /\ backend = "selenium" /\ pc = "pause" /\ ev = Ev("replay", "ok")
  /\ crop = Challenge /\ frames = <<>>
  /\ gesture # <<>> /\ gesture[1].ctx = "frame"

----------------------------------------------------------------------------
(* The order of probe and deadline in the Expansion Waiter.                 *)

(* C34: a round of _wait_expanded that finds the widget at interactive size *)
(* returns its rectangle whatever the budget, a budget of zero or one that  *)
(* has run out included; TimeoutError is raised only by a round whose probe *)
(* found no interactive-size rectangle, with the deadline reached.          *)
C34_ProbeBeforeDeadline ==
  [][ /\ ( /\ pc = "wait_expanded" /\ ProgramStep
           /\ IsAlreadyExpanded(frames)
           /\ ~(result'.kind = "raise" /\ result'.val = "Error") )
         => /\ pc' = "delay" /\ result' = Running
            /\ crop' = GetViewportAndCrop(frames)
      /\ ( /\ pc = "wait_expanded" /\ result'.kind = "raise"
           /\ result'.val = "TimeoutError" )
         => /\ ~IsAlreadyExpanded(frames)
            /\ DeadlineReached(timeout, elapsed)
            /\ ev'.op = "wait_expanded"
    ]_vars

(* C34 witness: the waiter returned the rectangle of the challenge with its *)
(* deadline already reached.                                                *)
C34_Witness ==
  /\ pc = "delay" /\ crop = Challenge
  /\ ev = EvArg("wait_expanded", "expanded", <<"deadline_reached">>)

----------------------------------------------------------------------------
(* Termination of the loop.                                                 *)

RemoteOps == {"poll", "push", "notify"}

(* From some point on no remote call raises.                                *)
RemoteCallsSucceed ==
  <>[][~(ev'.op \in RemoteOps /\ ev'.out = "raise")]_vars

(* From some point on no step of the loop raises: remote calls, replays,    *)
(* token probes, geometry probes and captures.                              *)
StepsSucceed == <>[][ev'.out \notin {"raise", "swallowed"}]_vars

(* From some point on every poll reports solved or expired.                 *)
PollsTerminal ==
  <>[][(pc = "poll" /\ ev'.op = "poll" /\ ev'.out # "raise")
         => IsTerminal(resp'.status)]_vars

(* From some point on the field holds a token; no poll ever reports a       *)
(* terminal status.                                                         *)
TokenStays == <>[](GetToken(field) # <<>>)
StatusActive == [](~IsTerminal(resp.status))

(* C35 as stated: with the steps of the loop taken fairly and remote calls  *)
(* succeeding in the end, the loop terminates when the polls end up         *)
(* reporting solved or expired, and terminates after an accepted            *)
(* notifySolved when the token is there to stay and the status is active.   *)
C35_LoopTerminates ==
  /\ (RemoteCallsSucceed /\ PollsTerminal) => <>(pc = "done")
  /\ (RemoteCallsSucceed /\ TokenStays /\ StatusActive)
       => <>(pc = "done")

(* C35, amended: the same, the token case under the assumption that in the  *)
(* end no step of the loop raises, the replay and the token probe included. *)
C35_LoopTerminatesWhenStepsSucceed ==
  /\ (RemoteCallsSucceed /\ PollsTerminal) => <>(pc = "done")
  /\ (StepsSucceed /\ TokenStays /\ StatusActive)
       => <>(pc = "done" /\ loopExit = "notified" /\ nNotify > 0)

(* C35 witness: the loop ended with notifySolved accepted after failed      *)
(* iterations.                                                              *)
C35_Witness ==
  /\ pc = "done" /\ loopExit = "notified" /\ fails > 0
  /\ ev.op = "notify" /\ ev.out = "ok"

====
